---- MODULE Spec2Model ----
(***************************************************************************)
(* Model of src/app.py: the Google Scholar publication similarity checker. *)
(*                                                                         *)
(* A Python str is a sequence of one-character strings, so that strip(),   *)
(* replace(" ", ""), the "in" substring test and the year regular          *)
(* expression are computed character by character.  Python's None is the   *)
(* empty tuple and an int year y is the one-element tuple <<y>>.           *)
(***************************************************************************)
EXTENDS Integers, Sequences, FiniteSets, TLC

(***************************************************************************)
(* Bounds of the model.                                                    *)
(***************************************************************************)
MaxPages == 2
MaxSpans == 4
MaxFiles == 3

(***************************************************************************)
(* Python str helpers.                                                     *)
(***************************************************************************)
None == <<>>

Whitespace == {" ", "\t", "\n"}

Digits == {"0", "1", "2", "3", "4", "5", "6", "7", "8", "9"}

Letters == {"A", "B", "E", "F", "G", "R", "S", "a", "c", "d", "e", "g", "h",
            "l", "n", "o", "p", "r", "t", "u", "z"}

IsWordChar(c) == c \in Digits \cup Letters \cup {"_"}

DigitVal(c) ==
  CASE c = "0" -> 0 [] c = "1" -> 1 [] c = "2" -> 2 [] c = "3" -> 3
    [] c = "4" -> 4 [] c = "5" -> 5 [] c = "6" -> 6 [] c = "7" -> 7
    [] c = "8" -> 8 [] c = "9" -> 9

RECURSIVE LStrip(_)
LStrip(s) ==
  IF s = <<>> THEN <<>>
  ELSE IF Head(s) \in Whitespace THEN LStrip(Tail(s)) ELSE s

RECURSIVE RStrip(_)
RStrip(s) ==
  IF s = <<>> THEN <<>>
  ELSE IF s[Len(s)] \in Whitespace THEN RStrip(SubSeq(s, 1, Len(s) - 1)) ELSE s

\* str.strip(): leading and trailing whitespace of every kind is removed.
Strip(s) == RStrip(LStrip(s))

\* A variant of the normalizer that removes every whitespace character.
RemoveAllWhitespace(s) == SelectSeq(s, LAMBDA c : c \notin Whitespace)

\* title.replace(" ", ""): only the space character U+0020 is removed.
RemoveSpaces(s) == SelectSeq(s, LAMBDA c : c # " ")

\* needle in hay
Contains(hay, needle) ==
  \E i \in 0..(Len(hay) - Len(needle)) :
    SubSeq(hay, i + 1, i + Len(needle)) = needle

RECURSIVE Join(_, _)
\* sep.join(parts)
Join(sep, parts) ==
  IF parts = <<>> THEN <<>>
  ELSE IF Len(parts) = 1 THEN parts[1]
  ELSE parts[1] \o sep \o Join(sep, Tail(parts))

RECURSIVE Concat(_)
Concat(parts) == IF parts = <<>> THEN <<>> ELSE Head(parts) \o Concat(Tail(parts))

(***************************************************************************)
(* re.search(r'\b(20\d{2}|19\d{2})\b', line): the leftmost match.          *)
(***************************************************************************)
YearMatchAt(s, i) ==
  /\ i + 3 <= Len(s)
  /\ \/ (s[i] = "2" /\ s[i + 1] = "0")
     \/ (s[i] = "1" /\ s[i + 1] = "9")
  /\ s[i + 2] \in Digits
  /\ s[i + 3] \in Digits
  /\ (i = 1 \/ ~IsWordChar(s[i - 1]))
  /\ (i + 3 = Len(s) \/ ~IsWordChar(s[i + 4]))

YearMatches(s) == {i \in 1..Len(s) : YearMatchAt(s, i)}

\* None when the line has no match, else int(year_match.group(0)).
YearSearch(s) ==
  IF YearMatches(s) = {} THEN None
  ELSE LET i == CHOOSE j \in YearMatches(s) : \A k \in YearMatches(s) : j <= k
       IN  <<1000 * DigitVal(s[i]) + 100 * DigitVal(s[i + 1])
             + 10 * DigitVal(s[i + 2]) + DigitVal(s[i + 3])>>

(***************************************************************************)
(* is_blue                                                                 *)
(***************************************************************************)
is_blue(color_int) ==
  LET r == (color_int \div 65536) % 256
      g == (color_int \div 256) % 256
      b == color_int % 256
  IN  b > r /\ b > g

(***************************************************************************)
(* Documents as the PDF library hands them over: a page is a sequence of   *)
(* blocks, a text block (type 0) has lines, a line has spans.              *)
(***************************************************************************)
Span(text, color) == [text |-> text, color |-> color]

LinkBlue == 26 * 65536 + 13 * 256 + 171
PlainInk == 34 * 65536 + 34 * 256 + 34

Hi(text) == Span(text, LinkBlue)
Pl(text) == Span(text, PlainInk)

TextBlock(top, lines) == [type |-> 0, top |-> top, lines |-> lines]
ImageBlock(top) == [type |-> 1, top |-> top, lines |-> <<>>]

RECURSIVE SpansOfPage(_)
\* The spans of a page in encounter order: blocks with lines, lines, spans.
SpansOfPage(page) ==
  IF page = <<>> THEN <<>>
  ELSE (IF Head(page).type = 0 THEN Concat(Head(page).lines) ELSE <<>>)
       \o SpansOfPage(Tail(page))

RECURSIVE LinesOfPage(_)
LinesOfPage(page) ==
  IF page = <<>> THEN <<>>
  ELSE (IF Head(page).type = 0 THEN Head(page).lines ELSE <<>>)
       \o LinesOfPage(Tail(page))

\* page.get_text("text").split("\n"): one entry per line, the texts of its
\* spans joined, and the empty string after the last line break.
PageTextLines(page) ==
  LET ls == LinesOfPage(page)
  IN  [i \in 1..Len(ls) |-> Concat([j \in 1..Len(ls[i]) |-> ls[i][j].text])]
      \o << <<>> >>

(***************************************************************************)
(* extract_blue_text_with_years, one loop body at a time.                  *)
(***************************************************************************)
\* blue_texts[key] = value
DictSet(d, key, value) ==
  [k \in DOMAIN d \cup {key} |-> IF k = key THEN value ELSE d[k]]

\* blue_texts[current_title.strip()] = None
Commit(bt, title) == DictSet(bt, title, None)

\* A span step that appends the span's text without the separator space.
SpanStepNoSeparator(st, span) ==
  IF is_blue(span.color)
  THEN [st EXCEPT !.current_title = @ \o span.text]
  ELSE IF Strip(st.current_title) # <<>>
       THEN [st EXCEPT !.blue_texts = Commit(@, Strip(st.current_title)),
                       !.current_title = <<>>]
       ELSE st

\* The body of the loop over spans.
SpanStep(st, span) ==
  IF is_blue(span.color)
  THEN [st EXCEPT !.current_title = @ \o span.text \o <<" ">>]
  ELSE IF Strip(st.current_title) # <<>>
       THEN [st EXCEPT !.blue_texts = Commit(@, Strip(st.current_title)),
                       !.current_title = <<>>]
       ELSE st

RECURSIVE ScanYears(_, _)
\* The loop over text_lines: the last line with a match sets current_year.
ScanYears(cy, lines) ==
  IF lines = <<>> THEN cy
  ELSE LET m == YearSearch(Strip(Head(lines)))
       IN  ScanYears(IF m # None THEN m ELSE cy, Tail(lines))

\* The loop over title_list.
AssignYears(bt, cy) ==
  [t \in DOMAIN bt |-> IF bt[t] = None /\ cy # None THEN cy ELSE bt[t]]

RECURSIVE SpanSteps(_, _)
SpanSteps(st, spans) ==
  IF spans = <<>> THEN st ELSE SpanSteps(SpanStep(st, Head(spans)), Tail(spans))

\* The body of the loop over pages.
PageStep(st, page) ==
  LET s1 == SpanSteps(st, SpansOfPage(page))
      cy == ScanYears(s1.current_year, PageTextLines(page))
  IN  [s1 EXCEPT !.current_year = cy, !.blue_texts = AssignYears(@, cy)]

RECURSIVE PageSteps(_, _)
PageSteps(st, pages) ==
  IF pages = <<>> THEN st ELSE PageSteps(PageStep(st, Head(pages)), Tail(pages))

EmptyDict == <<>>

ExtractInit == [blue_texts |-> EmptyDict, current_title |-> <<>>, current_year |-> None]

\* extract_blue_text_with_years(file_object)
extract_blue_text_with_years(file) ==
  IF file.nbytes = 0 THEN EmptyDict
  ELSE PageSteps(ExtractInit, file.pages).blue_texts

(***************************************************************************)
(* State.  The first group is one call of extract_blue_text_with_years on  *)
(* a document that is read as the loops reach it; the second group is the  *)
(* script body run on a batch of uploads.                                  *)
(***************************************************************************)
VARIABLES
  pc,              \* position in extract_blue_text_with_years
  pdf_document,    \* the pages loaded so far, the last one being `page`
  blue_texts,
  current_title,
  current_year,
  first_year,      \* history: the first year each title was assigned
  app_pc,          \* position in the script body
  uploaded_files,  \* the uploads the loop has taken so far
  script_current_year, \* the script's own current_year (line 96)
  min_year,
  researcher_data, \* dict in insertion order: sequence of [name, titles]
  all_sets,        \* Unassigned until line 113 runs
  comparisons,
  fig,             \* Unassigned until a plt.subplots call runs
  messages,        \* st.error / st.warning calls, in order
  raised           \* the exception that ended the run, or "none"

extract_vars == <<pc, pdf_document, blue_texts, current_title, current_year, first_year>>

app_vars == <<app_pc, uploaded_files, script_current_year, min_year, researcher_data, all_sets,
              comparisons, fig, messages, raised>>

vars == <<extract_vars, app_vars>>

\* A name of the script that no statement has assigned yet is the empty tuple,
\* and a name holding the value v is <<v>>.
Unassigned == <<>>

(***************************************************************************)
(* Specification of the extraction.                                        *)
(***************************************************************************)
Foo_ == <<"F", "o", "o", " ">>
Bar == <<"B", "a", "r">>
Baz == <<"B", "a", "z">>
Blank == <<" ">>
Y2019 == <<"2", "0", "1", "9">>
Y2020 == <<"2", "0", "2", "0">>

\* The spans a document of the model is made of.
SpanSet == {Hi(Foo_), Hi(Bar), Hi(Blank), Pl(Baz), Pl(Y2019), Pl(Y2020)}

AppIdle ==
  /\ app_pc = "idle"
  /\ uploaded_files = <<>>
  /\ script_current_year = 0
  /\ min_year = 0
  /\ researcher_data = <<>>
  /\ all_sets = Unassigned
  /\ comparisons = <<>>
  /\ fig = Unassigned
  /\ messages = <<>>
  /\ raised = "none"

ExtractInitState ==
  /\ pc = "start"
  /\ pdf_document = <<>>
  /\ blue_texts = ExtractInit.blue_texts
  /\ current_title = ExtractInit.current_title
  /\ current_year = ExtractInit.current_year
  /\ first_year = EmptyDict

InitExtract == ExtractInitState /\ AppIdle

RECURSIVE DocSpansOf(_)
DocSpansOf(pages) ==
  IF pages = <<>> THEN <<>> ELSE SpansOfPage(Head(pages)) \o DocSpansOf(Tail(pages))

\* The spans of the document read so far, in encounter order.
DocSpans == DocSpansOf(pdf_document)

\* The page of the current iteration.
page == pdf_document[Len(pdf_document)]

\* file_object.getbuffer().nbytes == 0: return {}
ReturnEmpty ==
  /\ pc = "start"
  /\ pc' = "done"
  /\ UNCHANGED <<pdf_document, blue_texts, current_title, current_year, first_year, app_vars>>

\* fitz.open on a non-empty stream
OpenDocument ==
  /\ pc = "start"
  /\ pc' = "page"
  /\ UNCHANGED <<pdf_document, blue_texts, current_title, current_year, first_year, app_vars>>

\* page = pdf_document.load_page(page_number)
LoadPage ==
  /\ pc = "page"
  /\ Len(pdf_document) < MaxPages
  /\ pdf_document' = Append(pdf_document, <<>>)
  /\ pc' = "spans"
  /\ UNCHANGED <<blue_texts, current_title, current_year, first_year, app_vars>>

\* One iteration of the loop over spans; the span is the next one of the page.
ProcessSpan ==
  /\ pc = "spans"
  /\ Len(DocSpans) < MaxSpans
  /\ \E span \in SpanSet :
       LET st == SpanStep([blue_texts |-> blue_texts,
                           current_title |-> current_title,
                           current_year |-> current_year], span)
       IN  /\ pdf_document' =
                [pdf_document EXCEPT ![Len(pdf_document)] =
                   Append(@, TextBlock(Len(@), << <<span>> >>))]
           /\ blue_texts' = st.blue_texts
           /\ current_title' = st.current_title
  /\ UNCHANGED <<pc, current_year, first_year, app_vars>>

\* The blocks are exhausted: the loop over text_lines.
ScanText ==
  /\ pc = "spans"
  /\ current_year' = ScanYears(current_year, PageTextLines(page))
  /\ pc' = "assign"
  /\ UNCHANGED <<pdf_document, blue_texts, current_title, first_year, app_vars>>

\* The loop over title_list.
AssignPageYears ==
  /\ pc = "assign"
  /\ blue_texts' = AssignYears(blue_texts, current_year)
  /\ first_year' =
       [t \in {u \in DOMAIN blue_texts' : u \in DOMAIN first_year \/ blue_texts'[u] # None} |->
          IF t \in DOMAIN first_year THEN first_year[t] ELSE blue_texts'[t]]
  /\ pc' = "page"
  /\ UNCHANGED <<pdf_document, current_title, current_year, app_vars>>

\* The loop over pages is exhausted: return blue_texts.
Return ==
  /\ pc = "page"
  /\ Len(pdf_document) >= 1
  /\ pc' = "done"
  /\ UNCHANGED <<pdf_document, blue_texts, current_title, current_year, first_year, app_vars>>

NextExtract ==
  \/ ReturnEmpty
  \/ OpenDocument
  \/ LoadPage
  \/ ProcessSpan
  \/ ScanText
  \/ AssignPageYears
  \/ Return

SpecExtract == InitExtract /\ [][NextExtract]_vars

(***************************************************************************)
(* Properties of the extraction.                                           *)
(***************************************************************************)
\* The maximal runs of consecutive highlighted spans that a plain span
\* follows, as <<first, last>> positions in spans.
ClosedRuns(spans) ==
  {r \in (1..Len(spans)) \X (1..Len(spans)) :
     /\ r[1] <= r[2]
     /\ \A k \in r[1]..r[2] : is_blue(spans[k].color)
     /\ (r[1] = 1 \/ ~is_blue(spans[r[1] - 1].color))
     /\ r[2] < Len(spans)
     /\ ~is_blue(spans[r[2] + 1].color)}

\* The run of highlighted spans that ends the document, if there is one.
TrailingRuns(spans) ==
  {r \in (1..Len(spans)) \X (1..Len(spans)) :
     /\ r[1] <= r[2]
     /\ r[2] = Len(spans)
     /\ \A k \in r[1]..r[2] : is_blue(spans[k].color)
     /\ (r[1] = 1 \/ ~is_blue(spans[r[1] - 1].color))}

\* The span texts of a run, each followed by one space, trimmed.
SpacedTitle(spans, r) ==
  Strip(Concat([k \in 1..(r[2] - r[1] + 1) |-> spans[r[1] + k - 1].text \o <<" ">>]))

\* The span texts of a run, one after the other, trimmed.
PlainTitle(spans, r) ==
  Strip(Concat([k \in 1..(r[2] - r[1] + 1) |-> spans[r[1] + k - 1].text]))

Keys(d) == DOMAIN d

\* C1: when extraction returns, the trimmed text of a run of highlighted spans
\* that ends the document is a key of the returned mapping.
C1_TrailingRunCommitted ==
  pc = "done" =>
    \A r \in TrailingRuns(DocSpans) :
      SpacedTitle(DocSpans, r) # <<>> => SpacedTitle(DocSpans, r) \in Keys(blue_texts)

\* C2: once a title has been assigned a year that year stays: in the
\* returned mapping every title that was ever assigned a year has the first
\* year it was assigned.
C2_YearNeverReassigned ==
  pc = "done" =>
    \A t \in Keys(first_year) :
      t \in Keys(blue_texts) /\ blue_texts[t] = first_year[t]

\* Whether a year token was found in the text of the current page.
PageHasYear ==
  \E i \in 1..Len(PageTextLines(page)) :
    YearSearch(Strip(PageTextLines(page)[i])) # None

\* C5: at the end of a page whose own text holds no year token, no title is
\* assigned a year, whatever years earlier pages contained.
C5_YearIsPageScoped ==
  [][(pc = "assign" /\ ~PageHasYear) => blue_texts' = blue_texts]_vars

\* C7 as stated: the titles are exactly the closed runs' span texts put one
\* after the other, so that highlighted("Foo "), highlighted("Bar"),
\* plain("Baz") gives the one title "Foo Bar".
C7_TitleIsConcatenation ==
  Keys(blue_texts) =
    {PlainTitle(DocSpans, r) : r \in ClosedRuns(DocSpans)} \ {<<>>}

\* C7 amended: the titles are exactly the non-blank closed runs, each as its
\* span texts in order, every one followed by a single space, trimmed; no
\* text of a plain span is part of a title.
C7_TitleIsSpacedRun ==
  Keys(blue_texts) =
    {SpacedTitle(DocSpans, r) : r \in ClosedRuns(DocSpans)} \ {<<>>}

\* The run highlighted("Foo "), highlighted("Bar") closed by plain("Baz") has
\* been committed with the doubled space between its parts.
C7_Witness ==
  /\ pc = "done"
  /\ DocSpans = <<Hi(Foo_), Hi(Bar), Pl(Baz)>>
  /\ Keys(blue_texts) = {<<"F", "o", "o", " ", " ", "B", "a", "r">>}

(***************************************************************************)
(* The script body: uploads, recency filter, comparison, diagram.          *)
(***************************************************************************)
GoogleScholar == <<"G", "o", "o", "g", "l", "e", " ", "S", "c", "h", "o", "l", "a", "r">>
Report == <<"R", "e", "p", "o", "r", "t">>
Foo == <<"F", "o", "o">>
FooBar == <<"F", "o", "o", "B", "a", "r">>
FooTabBar == <<"F", "o", "o", "\t", "B", "a", "r">>

RECURSIVE TopmostText(_, _, _)
\* The loop over the blocks of page 1: the text of the text block whose top
\* edge is smallest, its span texts joined by single spaces.  topmost_y is
\* None for float('inf').
TopmostText(blocks, topmost_y, topmost_text) ==
  IF blocks = <<>> THEN topmost_text
  ELSE LET block == Head(blocks)
           spans == Concat(block.lines)
       IN  IF block.type = 0 /\ (topmost_y = None \/ block.top < topmost_y[1])
           THEN TopmostText(Tail(blocks), <<block.top>>,
                            Join(<<" ">>, [k \in 1..Len(spans) |-> spans[k].text]))
           ELSE TopmostText(Tail(blocks), topmost_y, topmost_text)

\* is_google_scholar(file_object): the value returned, the st.error calls
\* made, and the exception that leaves the function ("none": it returns).
\* fitz.open raises on a stream that is no PDF.
is_google_scholar(file) ==
  IF file.nbytes = 0
  THEN [value |-> FALSE, raised |-> "none",
        messages |-> <<[kind |-> "error: empty or invalid", name |-> file.name]>>]
  ELSE IF ~file.decodable
       THEN [value |-> FALSE, raised |-> "FileDataError", messages |-> <<>>]
       ELSE [value |-> Contains(TopmostText(file.pages[1], None, <<>>), GoogleScholar),
             raised |-> "none", messages |-> <<>>]

\* A recency filter that also drops the titles of the cutoff year itself.
FilterAfterCutoff(extracted, cutoff) ==
  {title \in DOMAIN extracted :
     extracted[title] # None /\ extracted[title][1] > cutoff}

\* filtered_titles = {title for title, year in ... if year and year >= min_year}
FilterTitles(extracted, cutoff) ==
  {title \in DOMAIN extracted :
     extracted[title] # None /\ extracted[title][1] # 0 /\ extracted[title][1] >= cutoff}

\* researcher_data[name] = titles, on a dict kept in insertion order.
DictPut(d, name, titles) ==
  IF \E i \in 1..Len(d) : d[i].name = name
  THEN [i \in 1..Len(d) |-> IF d[i].name = name THEN [name |-> name, titles |-> titles] ELSE d[i]]
  ELSE Append(d, [name |-> name, titles |-> titles])

\* common_titles of one pair (line 117)
CommonTitles(A, B) ==
  {t1 \in A : \E t2 \in B : RemoveSpaces(t1) = RemoveSpaces(t2)}

StrippedKeys(titles) == {RemoveSpaces(t) : t \in titles}

\* The dicts {title.replace(" ", ""): title for title in titles} can be: of the
\* titles of one key the dict keeps the one the set's iteration yields last,
\* and the iteration order of a set of str is not fixed.
StrippedDicts(titles) ==
  {d \in [StrippedKeys(titles) -> titles] : \A k \in DOMAIN d : RemoveSpaces(d[k]) = k}

\* combinations(all_sets.keys(), 2), in generation order
RECURSIVE Combinations(_, _, _)
Combinations(n, i, j) ==
  IF i >= n THEN <<>>
  ELSE IF j > n THEN Combinations(n, i + 1, i + 2)
  ELSE << <<i, j>> >> \o Combinations(n, i, j + 1)

PairRow(sets, c) ==
  LET common_titles == CommonTitles(sets[c[1]].titles, sets[c[2]].titles)
  IN  [files |-> <<sets[c[1]].name, sets[c[2]].name>>,
       count |-> Cardinality(common_titles),
       titles |-> common_titles]

PairRows(sets) ==
  LET cs == Combinations(Len(sets), 1, 2)
  IN  [k \in 1..Len(cs) |-> PairRow(sets, cs[k])]

\* The "All Researchers" row for one outcome of stripped_sets.
AllRow(stripped_sets) ==
  LET common_all_keys ==
        {k \in DOMAIN stripped_sets[1] :
           \A i \in 1..Len(stripped_sets) : k \in DOMAIN stripped_sets[i]}
      common_all ==
        {stripped_sets[i][key] : i \in 1..Len(stripped_sets), key \in common_all_keys}
  IN  [files |-> <<"All Researchers">>,
       count |-> Cardinality(common_all),
       titles |-> common_all]

(***************************************************************************)
(* The uploads of the model.                                               *)
(***************************************************************************)
\* file.name is only ever compared with other names, so the uploads are named
\* in order of first appearance: an upload has a name already seen or the
\* first name not seen yet.
NameOrder == <<"a.pdf", "b.pdf", "c.pdf", "d.pdf", "e.pdf">>

Names == {NameOrder[i] : i \in 1..Len(NameOrder)}

SeenNames(files) == {files[i].name : i \in 1..Len(files)}

NextNames(files) ==
  SeenNames(files) \cup {NameOrder[Cardinality(SeenNames(files)) + 1]}

Header == TextBlock(0, << <<Pl(GoogleScholar)>> >>)

\* One publication: the title line, the authors line, the year line.
Entry(top, title_spans, year) ==
  TextBlock(top, <<title_spans, <<Pl(Baz)>>, <<Pl(year)>> >>)

DocSpaced == << <<Header, Entry(1, <<Hi(Foo), Hi(Bar)>>, Y2020)>> >>
DocJoined == << <<Header, Entry(1, <<Hi(FooBar)>>, Y2020)>> >>
DocBoth == << <<Header, Entry(1, <<Hi(Foo), Hi(Bar)>>, Y2020),
                Entry(2, <<Hi(FooBar)>>, Y2020)>> >>
DocTwoPages == << <<Header, Entry(1, <<Hi(Bar)>>, Y2019)>>,
                  <<ImageBlock(0), Entry(1, <<Hi(FooTabBar)>>, Y2020)>> >>
DocNoYear == << <<Header, TextBlock(1, << <<Hi(FooBar)>>, <<Pl(Baz)>> >>)>> >>
\* The marker is on the page, but not in its topmost block.
DocOther == << <<TextBlock(5, << <<Pl(GoogleScholar)>> >>),
                 TextBlock(0, << <<Pl(Report)>> >>),
                 Entry(6, <<Hi(FooBar)>>, Y2020)>> >>

Pdfs == {DocSpaced, DocJoined, DocBoth, DocTwoPages, DocNoYear, DocOther}

Files ==
  {[name |-> n, nbytes |-> 1, decodable |-> TRUE, pages |-> d] : n \in Names, d \in Pdfs}
  \cup {[name |-> n, nbytes |-> 0, decodable |-> FALSE, pages |-> <<>>] : n \in Names}
  \cup {[name |-> n, nbytes |-> 1, decodable |-> FALSE, pages |-> <<>>] : n \in Names}

\* datetime.now().year
CurrentYears == {2023, 2024}

ExtractIdle ==
  /\ pc = "idle"
  /\ pdf_document = <<>>
  /\ blue_texts = EmptyDict
  /\ current_title = <<>>
  /\ current_year = None
  /\ first_year = EmptyDict

\* The script has reached the loop over a non-empty uploaded_files.
InitApp ==
  /\ ExtractIdle
  /\ app_pc = "loop"
  /\ uploaded_files = <<>>
  /\ script_current_year \in CurrentYears
  /\ min_year = script_current_year - 4
  /\ researcher_data = <<>>
  /\ all_sets = Unassigned
  /\ comparisons = <<>>
  /\ fig = Unassigned
  /\ messages = <<>>
  /\ raised = "none"

\* One iteration of the loop over uploaded_files (lines 99-108).
ProcessFile ==
  /\ app_pc = "loop"
  /\ Len(uploaded_files) < MaxFiles
  /\ Len(uploaded_files) < Len(NameOrder)
  /\ \E file \in Files :
       LET gs == is_google_scholar(file)
       IN  /\ file.name \in NextNames(uploaded_files)
           /\ uploaded_files' = Append(uploaded_files, file)
           /\ IF gs.raised # "none"
              THEN /\ raised' = gs.raised
                   /\ app_pc' = "crashed"
                   /\ UNCHANGED <<researcher_data, messages>>
              ELSE IF gs.value
              THEN /\ researcher_data' =
                        DictPut(researcher_data, file.name,
                                FilterTitles(extract_blue_text_with_years(file), min_year))
                   /\ messages' = messages \o gs.messages
                   /\ UNCHANGED <<raised, app_pc>>
              ELSE /\ messages' = messages \o gs.messages
                        \o <<[kind |-> "warning: skipping", name |-> file.name]>>
                   /\ UNCHANGED <<raised, app_pc, researcher_data>>
  /\ UNCHANGED <<extract_vars, script_current_year, min_year, all_sets, comparisons, fig>>

\* uploaded_files, which is not empty, is exhausted.
EndOfUploads ==
  /\ app_pc = "loop"
  /\ Len(uploaded_files) >= 1
  /\ app_pc' = "compare"
  /\ UNCHANGED <<extract_vars, uploaded_files, script_current_year, min_year,
                 researcher_data, all_sets, comparisons, fig, messages, raised>>

\* The block under len(researcher_data) > 1 (lines 110-157).
Compare ==
  /\ app_pc = "compare"
  /\ IF Len(researcher_data) > 1
     THEN /\ all_sets' = <<researcher_data>>
          /\ IF Len(researcher_data) > 2
             THEN \E stripped_sets \in
                       {ss \in [1..Len(researcher_data) ->
                                  UNION {StrippedDicts(researcher_data[i].titles) :
                                           i \in 1..Len(researcher_data)}] :
                          \A i \in 1..Len(researcher_data) :
                            ss[i] \in StrippedDicts(researcher_data[i].titles)} :
                    comparisons' = Append(PairRows(researcher_data), AllRow(stripped_sets))
             ELSE comparisons' = PairRows(researcher_data)
     ELSE UNCHANGED <<all_sets, comparisons>>
  /\ app_pc' = "diagram"
  /\ UNCHANGED <<extract_vars, uploaded_files, script_current_year, min_year,
                 researcher_data, fig, messages, raised>>

\* The diagram block and the final st.pyplot(fig) (lines 159-194).  Reading a
\* name that was never assigned raises NameError.
Diagram ==
  /\ app_pc = "diagram"
  /\ IF all_sets = Unassigned
     THEN /\ raised' = "NameError"
          /\ app_pc' = "crashed"
          /\ UNCHANGED <<fig, messages>>
     ELSE IF Len(all_sets[1]) > 1
     THEN /\ fig' = <<"figure">>
          /\ messages' = IF Len(all_sets[1]) > 3
                         THEN Append(messages, [kind |-> "warning: more than 3 researchers",
                                                name |-> ""])
                         ELSE messages
          /\ app_pc' = "done"
          /\ UNCHANGED raised
     ELSE /\ messages' = Append(messages, [kind |-> "warning: upload at least 2",
                                           name |-> ""])
          /\ IF fig = Unassigned
             THEN raised' = "NameError" /\ app_pc' = "crashed"
             ELSE app_pc' = "done" /\ UNCHANGED raised
          /\ UNCHANGED fig
  /\ UNCHANGED <<extract_vars, uploaded_files, script_current_year, min_year,
                 researcher_data, all_sets, comparisons>>

NextApp ==
  \/ ProcessFile
  \/ EndOfUploads
  \/ Compare
  \/ Diagram

SpecApp == InitApp /\ [][NextApp]_vars

(***************************************************************************)
(* Properties of the script body.                                          *)
(***************************************************************************)
PairwiseRows == {k \in 1..Len(comparisons) : Len(comparisons[k].files) = 2}

AllResearchersRows ==
  {k \in 1..Len(comparisons) : comparisons[k].files = <<"All Researchers">>}

\* C3: the count of the "All Researchers" row is never greater than the count
\* of a pairwise row.
C3_AllRowAtMostPairwise ==
  \A a \in AllResearchersRows : \A p \in PairwiseRows :
    comparisons[a].count <= comparisons[p].count

\* C4: each pairwise row has the count and the matched normalized keys that
\* the comparison of the same two sets in the other order gives.
C4_PairwiseSymmetric ==
  all_sets # Unassigned =>
    \A k \in PairwiseRows :
      LET c == Combinations(Len(all_sets[1]), 1, 2)[k]
          swapped == CommonTitles(all_sets[1][c[2]].titles, all_sets[1][c[1]].titles)
      IN  /\ comparisons[k].count = Cardinality(swapped)
          /\ StrippedKeys(comparisons[k].titles) = StrippedKeys(swapped)

\* Whether the upload is rejected: zero-length, no PDF, or not in the format.
Rejected(file) ==
  \/ file.nbytes = 0
  \/ ~file.decodable
  \/ ~Contains(TopmostText(file.pages[1], None, <<>>), GoogleScholar)

Record(name) ==
  researcher_data[CHOOSE i \in 1..Len(researcher_data) : researcher_data[i].name = name]

HasRecord(name) == \E i \in 1..Len(researcher_data) : researcher_data[i].name = name

\* C6: no upload ends the batch; every rejected upload has its message, and
\* every other upload has its researcher record.
C6_FailuresIsolated ==
  /\ raised # "FileDataError"
  /\ \A i \in 1..Len(uploaded_files) :
       IF Rejected(uploaded_files[i])
       THEN \E m \in 1..Len(messages) : messages[m].name = uploaded_files[i].name
       ELSE HasRecord(uploaded_files[i].name)

\* The upload at position i was accepted and no later accepted upload has
\* taken its name.
HoldsRecord(i) ==
  /\ ~Rejected(uploaded_files[i])
  /\ \A j \in (i + 1)..Len(uploaded_files) :
       uploaded_files[j].name # uploaded_files[i].name \/ Rejected(uploaded_files[j])

\* C8: a researcher's set holds exactly the extracted titles that have a year
\* and whose year is at least the current year minus 4; with current year
\* 2024 the title of 2019 is dropped, the title of 2020 is kept and the title
\* without a year is dropped.
C8_RecencyFilter ==
  \A i \in 1..Len(uploaded_files) :
    HoldsRecord(i) =>
      LET f == uploaded_files[i]
          extracted == extract_blue_text_with_years(f)
          kept == Record(f.name).titles
      IN  /\ \A t \in DOMAIN extracted :
               t \in kept <=>
                 (extracted[t] # None /\ extracted[t][1] >= script_current_year - 4)
          /\ kept \subseteq DOMAIN extracted
          /\ (script_current_year = 2024 /\ f.pages = DocTwoPages) => kept = {FooTabBar}
          /\ (script_current_year = 2024 /\ f.pages = DocNoYear) => kept = {}

\* In 2024 the document with a title of 2019 and a title of 2020 and the
\* document whose title has no year have been filtered.
C8_Witness ==
  /\ script_current_year = 2024
  /\ \E i, j \in 1..Len(uploaded_files) :
       /\ HoldsRecord(i) /\ HoldsRecord(j)
       /\ uploaded_files[i].pages = DocTwoPages
       /\ extract_blue_text_with_years(uploaded_files[i]) =
            (Bar :> <<2019>>) @@ (FooTabBar :> <<2020>>)
       /\ Record(uploaded_files[i].name).titles = {FooTabBar}
       /\ uploaded_files[j].pages = DocNoYear
       /\ extract_blue_text_with_years(uploaded_files[j]) = (FooBar :> None)
       /\ Record(uploaded_files[j].name).titles = {}

AllTitles == UNION {researcher_data[i].titles : i \in 1..Len(researcher_data)}

\* C9: titles that differ only in whitespace have the same comparison key, and
\* every row counts them as one publication.
C9_WhitespaceInsensitive ==
  /\ \A t1, t2 \in AllTitles :
       RemoveAllWhitespace(t1) = RemoveAllWhitespace(t2) => RemoveSpaces(t1) = RemoveSpaces(t2)
  /\ \A k \in 1..Len(comparisons) :
       comparisons[k].count =
         Cardinality({RemoveAllWhitespace(t) : t \in comparisons[k].titles})

\* C10: a batch whose loop ends with fewer than two researcher records ends
\* with no comparison rows, the "upload at least 2" warning and no error.
C10_FewRecordsEndInWarning ==
  (app_pc \in {"done", "crashed"} /\ raised # "FileDataError" /\ Len(researcher_data) < 2) =>
    /\ app_pc = "done"
    /\ raised = "none"
    /\ comparisons = <<>>
    /\ messages # <<>>
    /\ messages[Len(messages)].kind = "warning: upload at least 2"

====
